---- MODULE Spec2Model ----
(***************************************************************************)
(* Model of refgenconf.RefGenConf (src/refgenconf/refgenconf.py): the      *)
(* registry of reference genome assemblies, their assets and the asset     *)
(* records, with get_asset, the listing operations and update_genomes.     *)
(*                                                                         *)
(* Python values are records [t, s, i, m]: t is the Python type name, s    *)
(* the text of a str as a sequence of tokens (so that + is \o and "" is    *)
(* <<>>), i the value of an int, m the entries of a mapping in insertion    *)
(* order, each entry being [k |-> key text, v |-> value].                  *)
(***************************************************************************)
EXTENDS Integers, Sequences, FiniteSets, TLC

VARIABLES reg, ncalls, last

vars == <<reg, ncalls, last>>

\* number of update_genomes calls explored
MaxCalls == 2

----------------------------------------------------------------------------
\* Python values

PyNone == [t |-> "NoneType", s |-> <<>>, i |-> 0, m |-> <<>>]

PyInt(n) == [t |-> "int", s |-> <<>>, i |-> n, m |-> <<>>]

PyStr(toks) == [t |-> "str", s |-> toks, i |-> 0, m |-> <<>>]

PyList == [t |-> "list", s |-> <<>>, i |-> 0, m |-> <<>>]

PyDict(entries) == [t |-> "dict", s |-> <<>>, i |-> 0, m |-> entries]

\* attmap.PathExAttMap(), the ordered mapping the registry nests
PXAM == [t |-> "PXAM", s |-> <<>>, i |-> 0, m |-> <<>>]

Entry(key, val) == [k |-> key, v |-> val]

\* isinstance(obj, str)
IsStr(obj) == obj.t = "str"

\* isinstance(obj, collections.Mapping)
IsMapping(obj) == obj.t \in {"dict", "PXAM", "RefGenConf"}

\* the name of the top-level key holding the genomes (self.genomes)
CFG_GENOMES_KEY == <<"genomes">>

----------------------------------------------------------------------------
\* The ordered mapping the registry is built on (entries in insertion order)

Keys(m) == [j \in 1..Len(m) |-> m[j].k]

Has(m, key) == \E j \in 1..Len(m) : m[j].k = key

Index(m, key) == CHOOSE j \in 1..Len(m) : m[j].k = key /\ \A h \in 1..(j-1) : m[h].k # key

GetItem(m, key) == m[Index(m, key)].v

\* m[key] = val: an existing key keeps its position
SetItem(m, key, val) ==
    IF Has(m, key) THEN [m EXCEPT ![Index(m, key)].v = val]
    ELSE Append(m, Entry(key, val))

\* a setdefault that inserts without looking the key up
setdefault_append(m, key, default) == Append(m, Entry(key, default))

\* m.setdefault(key, default)
setdefault(m, key, default) ==
    IF Has(m, key) THEN m ELSE Append(m, Entry(key, default))

RECURSIVE update_fold(_, _, _)
update_fold(m, data, j) ==
    IF j > Len(data) THEN m
    ELSE update_fold(SetItem(m, data[j].k, data[j].v), data, j + 1)

\* an update that replaces the record by the data
update_replace(m, data) == data

\* m.update(data): data's pairs override, the other keys stay
update(m, data) == update_fold(m, data, 1)

----------------------------------------------------------------------------
\* RefGenConf

\* a registry with top-level entries
Registry(entries) == [t |-> "RefGenConf", s |-> <<>>, i |-> 0, m |-> entries]

\* RefGenConf.__init__(entries)
init(entries) == Registry(setdefault(entries, CFG_GENOMES_KEY, PXAM))

\* self.genomes, self[CFG_GENOMES_KEY]: the entries of the Genome Collection
genomes(self) == GetItem(self.m, CFG_GENOMES_KEY).m

\* self with the Genome Collection's entries replaced (in-place mutation)
WithGenomes(self, gm) ==
    [self EXCEPT !.m = SetItem(self.m, CFG_GENOMES_KEY,
                               [GetItem(self.m, CFG_GENOMES_KEY) EXCEPT !.m = gm])]

\* self with the Asset Collection entries of one genome replaced
WithAssets(self, genome, am) ==
    WithGenomes(self, SetItem(genomes(self), genome,
                              [GetItem(genomes(self), genome) EXCEPT !.m = am]))

\* the outcome of a call: exception raised (or "none"), its message, the
\* returned value, the warnings emitted, the arguments the existence
\* predicate was called with, and the registry afterwards
Outcome(exc, msg, rkind, ret, rlist, rdict, warned, probes, self) ==
    [exc |-> exc, msg |-> msg, rkind |-> rkind, ret |-> ret, rlist |-> rlist,
     rdict |-> rdict, warned |-> warned, probes |-> probes, reg |-> self]

Raise(exc, msg, probes, self) ==
    Outcome(exc, msg, "none", PyNone, <<>>, <<>>, <<>>, probes, self)

----------------------------------------------------------------------------
\* get_asset

\* the existence predicate a caller passes: whether it is callable, how many
\* positional arguments it declares, the path strings it answers true for,
\* and its answer for an argument that is not a string
CheckExist(callable, nargs, accepts, onRecord) ==
    [callable |-> callable, nargs |-> nargs, accepts |-> accepts, onRecord |-> onRecord]

\* check_exist(p)
Call(check_exist, p) == IF IsStr(p) THEN p.s \in check_exist.accepts ELSE check_exist.onRecord

\* "{}".format(obj)
Format(obj) == IF IsStr(obj) THEN obj.s ELSE <<obj.t, "(...)">>

\* an argument check that only asks for a callable
one_arg_function_anyarity(check_exist) == check_exist.callable

\* callable(check_exist) and len(finspect(check_exist).args) == 1
one_arg_function(check_exist) == check_exist.callable /\ check_exist.nargs = 1

\* the suffixes probed, in the order of the loop
Exts == <<".tar.gz", ".tar">>

\* the loop over the suffixes: the note appended to the message and the
\* arguments the predicate was called with, stopping at the first that passes
RECURSIVE probe_exts(_, _, _)
probe_exts(path, j, check_exist) ==
    IF j > Len(Exts) THEN [note |-> <<>>, probes |-> <<>>]
    ELSE LET p_prime == PyStr(path.s \o <<Exts[j]>>)
         IN  IF Call(check_exist, p_prime)
             THEN [note |-> <<"; ">> \o p_prime.s \o <<" does exist">>,
                   probes |-> <<p_prime>>]
             ELSE LET rest == probe_exts(path, j + 1, check_exist)
                  IN  [note |-> rest.note, probes |-> <<p_prime>> \o rest.probes]

\* the existence policy applied to the value found for the asset
exists_policy(self, path, strict_exists, check_exist) ==
    IF strict_exists = "None"
    THEN Outcome("none", <<>>, "value", path, <<>>, <<>>, <<>>, <<>>, self)
    ELSE IF Call(check_exist, path)
    THEN Outcome("none", <<>>, "value", path, <<>>, <<>>, <<>>, <<path>>, self)
    ELSE IF ~IsStr(path)
    \* path + ext with path a mapping: unsupported operand type(s) for +
    THEN Raise("TypeError", <<"unsupported operand type(s) for +: ", path.t, " and ", "str">>,
               <<path>>, self)
    ELSE LET pr  == probe_exts(path, 1, check_exist)
             msg == <<"Asset may not exist: ">> \o Format(path) \o pr.note
         IN  IF strict_exists = "True"
             THEN Raise("IOError", msg, <<path>> \o pr.probes, self)
             ELSE Outcome("none", <<>>, "value", path, <<>>, <<>>, <<msg>>,
                          <<path>> \o pr.probes, self)

\* RefGenConf.get_asset(genome_name, asset_name, strict_exists, check_exist)
get_asset(self, genome_name, asset_name, strict_exists, check_exist) ==
    IF ~one_arg_function(check_exist)
    THEN Raise("TypeError", <<"Asset existence check must be a one-arg function.">>, <<>>, self)
    ELSE IF ~Has(genomes(self), genome_name)
    THEN Raise("MissingGenomeError", <<"Your genomes do not include ">> \o genome_name, <<>>, self)
    ELSE LET genome == GetItem(genomes(self), genome_name).m
         IN  IF ~Has(genome, asset_name)
             THEN Raise("MissingAssetError",
                        <<"Genome ">> \o genome_name \o <<" exists, but index ">>
                            \o asset_name \o <<" is missing">>, <<>>, self)
             ELSE exists_policy(self, GetItem(genome, asset_name), strict_exists, check_exist)

----------------------------------------------------------------------------
\* the listing operations

\* RefGenConf.genomes_list()
genomes_list(self) == Keys(genomes(self))

\* RefGenConf.assets_dict(): genome name -> list of its asset names
assets_dict(self) ==
    [j \in 1..Len(genomes(self)) |->
        Entry(genomes(self)[j].k, Keys(genomes(self)[j].v.m))]

\* RefGenConf.list_assets_by_genome(genome)
list_assets_by_genome(self, genome) ==
    IF genome = PyNone
    THEN Outcome("none", <<>>, "dict", PyNone, <<>>, assets_dict(self), <<>>, <<>>, self)
    ELSE IF ~Has(genomes(self), genome.s)
    THEN Raise("KeyError", genome.s, <<>>, self)
    ELSE Outcome("none", <<>>, "list", PyNone,
                 Keys(GetItem(genomes(self), genome.s).m), <<>>, <<>>, <<>>, self)

\* genomes.setdefault(a, []).append(g)
invert_add(inv, a, g) ==
    IF Has(inv, a) THEN [inv EXCEPT ![Index(inv, a)].v = Append(@, g)]
    ELSE Append(inv, Entry(a, <<g>>))

\* the two nested loops of _invert_genomes, from genome gi and asset ai on
RECURSIVE invert_from(_, _, _, _)
invert_from(gm, gi, ai, inv) ==
    IF gi > Len(gm) THEN inv
    ELSE IF ai > Len(gm[gi].v.m) THEN invert_from(gm, gi + 1, 1, inv)
    ELSE invert_from(gm, gi, ai + 1, invert_add(inv, gm[gi].v.m[ai].k, gm[gi].k))

\* RefGenConf._invert_genomes(): asset name -> list of the genomes having it
invert_genomes(self) == invert_from(genomes(self), 1, 1, <<>>)

\* [g for g, am in self.genomes.items() if asset in am]
RECURSIVE genomes_having(_, _, _)
genomes_having(gm, asset, j) ==
    IF j > Len(gm) THEN <<>>
    ELSE (IF Has(gm[j].v.m, asset) THEN <<gm[j].k>> ELSE <<>>)
             \o genomes_having(gm, asset, j + 1)

\* not obj, for None and str
Falsy(obj) == obj = PyNone \/ (IsStr(obj) /\ obj.s = <<>>) \/ (obj.t = "int" /\ obj.i = 0)
                 \/ (obj.t \in {"list", "dict", "PXAM"} /\ obj.m = <<>>)

\* RefGenConf.list_genomes_by_asset(asset)
list_genomes_by_asset(self, asset) ==
    IF Falsy(asset)
    THEN Outcome("none", <<>>, "dict", PyNone, <<>>, invert_genomes(self), <<>>, <<>>, self)
    ELSE Outcome("none", <<>>, "list", PyNone,
                 genomes_having(genomes(self), asset.s, 1), <<>>, <<>>, <<>>, self)

----------------------------------------------------------------------------
\* update_genomes

\* isinstance(obj, datatype), datatype being str or Mapping
IsInstance(obj, datatype) == IF datatype = "str" THEN IsStr(obj) ELSE IsMapping(obj)

CheckResult(exc, ok, msg) == [exc |-> exc, ok |-> ok, msg |-> msg]

\* a check that takes every falsy argument as not given
check_falsy(obj, datatype, name) ==
    IF Falsy(obj) THEN CheckResult("none", FALSE, <<>>)
    ELSE IF ~IsInstance(obj, datatype)
    THEN CheckResult("TypeError", FALSE, <<name, " must be ", datatype, "; got ", obj.t>>)
    ELSE CheckResult("none", TRUE, <<>>)

\* the local function check(obj, datatype, name) of update_genomes
check(obj, datatype, name) ==
    IF obj.t = "NoneType" THEN CheckResult("none", FALSE, <<>>)
    ELSE IF ~IsInstance(obj, datatype)
    THEN CheckResult("TypeError", FALSE, <<name, " must be ", datatype, "; got ", obj.t>>)
    ELSE CheckResult("none", TRUE, <<>>)

\* return self
ReturnSelf(self) == Outcome("none", <<>>, "self", PyNone, <<>>, <<>>, <<>>, <<>>, self)

\* self[CFG_GENOMES_KEY][genome][asset].update(data)
update_record(self, genome, asset, data) ==
    LET am  == GetItem(genomes(self), genome).m
        rec == GetItem(am, asset)
    IN  IF ~IsMapping(rec)
        THEN Raise("AttributeError", <<"'", rec.t, "' object has no attribute 'update'">>,
                   <<>>, self)
        ELSE ReturnSelf(WithAssets(self, genome,
                            SetItem(am, asset, [rec EXCEPT !.m = update(rec.m, data.m)])))

\* the asset level of update_genomes, entered once the genome is ensured
update_asset(self, genome, asset, data) ==
    LET ca == check(asset, "str", "asset")
    IN  IF ca.exc # "none" THEN Raise(ca.exc, ca.msg, <<>>, self)
        ELSE IF ~ca.ok THEN ReturnSelf(self)
        ELSE LET s2 == WithAssets(self, genome.s,
                           setdefault(GetItem(genomes(self), genome.s).m, asset.s, PXAM))
                 cd == check(data, "Mapping", "data")
             IN  IF cd.exc # "none" THEN Raise(cd.exc, cd.msg, <<>>, s2)
                 ELSE IF ~cd.ok THEN ReturnSelf(s2)
                 ELSE update_record(s2, genome.s, asset.s, data)

\* an update_genomes that goes on whatever the genome check answers
update_genomes_unguarded(self, genome, asset, data) ==
    LET cg == check(genome, "str", "genome")
    IN  IF cg.exc # "none" THEN Raise(cg.exc, cg.msg, <<>>, self)
        ELSE update_asset(WithGenomes(self, setdefault(genomes(self), genome.s, PXAM)),
                          genome, asset, data)

\* RefGenConf.update_genomes(genome, asset, data)
update_genomes(self, genome, asset, data) ==
    LET cg == check(genome, "str", "genome")
    IN  IF cg.exc # "none" THEN Raise(cg.exc, cg.msg, <<>>, self)
        ELSE IF ~cg.ok THEN ReturnSelf(self)
        ELSE update_asset(WithGenomes(self, setdefault(genomes(self), genome.s, PXAM)),
                          genome, asset, data)

----------------------------------------------------------------------------
\* The arguments the calls are explored with

HG38 == <<"hg38">>

MM10 == <<"mm10">>

FASTA == <<"fasta">>

GTF == <<"gtf">>

PATH == <<"path">>

CHECKSUM == <<"checksum">>

X == <<"/x">>

Y == <<"/y">>

GenomeArgs == {PyNone, PyInt(42), PyStr(<<>>), PyStr(HG38), PyStr(MM10)}

AssetArgs == {PyNone, PyInt(0), PyInt(42), PyStr(FASTA), PyStr(GTF)}

\* the asset names the genomes are listed for: none, "" and two names
AssetQueries == {PyNone, PyStr(<<>>), PyStr(FASTA), PyStr(GTF)}

DataArgs == {PyNone, PyList, PyInt(42),
             PyDict(<<Entry(PATH, PyStr(X))>>),
             PyDict(<<Entry(PATH, PyStr(Y))>>),
             PyDict(<<Entry(CHECKSUM, PyStr(<<"abc">>))>>)}

StrictArgs == {"True", "False", "None"}

\* the sets of strings an existence predicate may answer true for
ProbeSets == {{}, {X}, {X \o <<".tar.gz">>}, {X \o <<".tar">>},
              {X \o <<".tar.gz">>, X \o <<".tar">>}}

CheckArgs ==
    {CheckExist(FALSE, 0, {}, FALSE), CheckExist(TRUE, 2, {X}, TRUE),
     CheckExist(TRUE, 1, {}, TRUE)}
    \cup {CheckExist(TRUE, 1, S, FALSE) : S \in ProbeSets}

\* the documents a registry is constructed from: none, and one whose asset
\* maps directly to a path string
InitialEntries ==
    {<<>>,
     <<Entry(CFG_GENOMES_KEY,
             [PXAM EXCEPT !.m = <<Entry(HG38, [PXAM EXCEPT !.m = <<Entry(FASTA, PyStr(X))>>])>>])>>}

----------------------------------------------------------------------------
\* The state machine: reg is the registry, last the most recent call with its
\* arguments, the registry it was made on and its outcome

NoCheck == CheckExist(FALSE, 0, {}, FALSE)

CallRec(op, genome, asset, data, strict, chk, pre, out) ==
    [op |-> op, genome |-> genome, asset |-> asset, data |-> data,
     strict |-> strict, check |-> chk, pre |-> pre, out |-> out]

\* no call in progress: the caller holds no result
Idle(self) == CallRec("idle", PyNone, PyNone, PyNone, "None", NoCheck, self, ReturnSelf(self))

Init ==
    /\ reg \in {init(e) : e \in InitialEntries}
    /\ ncalls = 0
    /\ last = Idle(reg)

UpdateGenomes ==
    /\ last.op = "idle"
    /\ ncalls < MaxCalls
    /\ \E genome \in GenomeArgs, asset \in AssetArgs, data \in DataArgs :
          LET out == update_genomes(reg, genome, asset, data)
          IN  /\ reg' = out.reg
              /\ last' = CallRec("update_genomes", genome, asset, data, "None", NoCheck, reg, out)
    /\ ncalls' = ncalls + 1

GetAsset ==
    /\ last.op = "idle"
    /\ \E genome_name \in {PyStr(HG38), PyStr(MM10)}, asset_name \in {PyStr(FASTA), PyStr(GTF)},
          strict_exists \in StrictArgs, check_exist \in CheckArgs :
          LET out == get_asset(reg, genome_name.s, asset_name.s, strict_exists, check_exist)
          IN  /\ reg' = out.reg
              /\ last' = CallRec("get_asset", genome_name, asset_name, PyNone,
                                 strict_exists, check_exist, reg, out)
    /\ UNCHANGED ncalls

GenomesList ==
    /\ last.op = "idle"
    /\ last' = CallRec("genomes_list", PyNone, PyNone, PyNone, "None", NoCheck, reg,
                       Outcome("none", <<>>, "list", PyNone, genomes_list(reg), <<>>,
                               <<>>, <<>>, reg))
    /\ UNCHANGED <<reg, ncalls>>

ListAssetsByGenome ==
    /\ last.op = "idle"
    /\ \E genome \in {g \in GenomeArgs : IsStr(g) \/ g = PyNone} :
          LET out == list_assets_by_genome(reg, genome)
          IN  /\ reg' = out.reg
              /\ last' = CallRec("list_assets_by_genome", genome, PyNone, PyNone, "None",
                                 NoCheck, reg, out)
    /\ UNCHANGED ncalls

ListGenomesByAsset ==
    /\ last.op = "idle"
    /\ \E asset \in AssetQueries :
          LET out == list_genomes_by_asset(reg, asset)
          IN  /\ reg' = out.reg
              /\ last' = CallRec("list_genomes_by_asset", PyNone, asset, PyNone, "None",
                                 NoCheck, reg, out)
    /\ UNCHANGED ncalls

\* the call has returned or raised; the caller goes on to its next call
Return ==
    /\ last.op # "idle"
    /\ last' = Idle(reg)
    /\ UNCHANGED <<reg, ncalls>>

Next ==
    \/ UpdateGenomes
    \/ GetAsset
    \/ GenomesList
    \/ ListAssetsByGenome
    \/ ListGenomesByAsset
    \/ Return

Spec == Init /\ [][Next]_vars

----------------------------------------------------------------------------
\* Vocabulary of the properties

out == last.out

\* the Asset Collection entries of genome g
Assets(self, g) == GetItem(genomes(self), g).m

Registered(self, g, a) == Has(genomes(self), g) /\ Has(Assets(self, g), a)

NoDup(seq) == \A j, h \in 1..Len(seq) : seq[j] = seq[h] => j = h

IsPrefix(p, q) == Len(p) <= Len(q) /\ SubSeq(q, 1, Len(p)) = p

Contains(msg, sub) ==
    \E j \in 1..(Len(msg) - Len(sub) + 1) : SubSeq(msg, j, j + Len(sub) - 1) = sub

\* the predicate is a callable of exactly one argument
OneArg(chk) == chk.callable /\ chk.nargs = 1

\* the path/URL string stored for an asset: the value itself when the asset
\* maps to a string, the path field of its Asset Record otherwise
StoredPath(val) ==
    IF IsStr(val) THEN val
    ELSE IF Has(val.m, PATH) THEN GetItem(val.m, PATH)
    ELSE PyNone

\* the asset looked up by the last get_asset call, in the registry it ran on
Looked == GetItem(Assets(last.pre, last.genome.s), last.asset.s)

\* the last call is a get_asset with a valid predicate on a registered asset
\* that has a stored path string
GetOnStored ==
    /\ last.op = "get_asset"
    /\ OneArg(last.check)
    /\ Registered(last.pre, last.genome.s, last.asset.s)
    /\ IsStr(StoredPath(Looked))

----------------------------------------------------------------------------
\* C1: get_asset reports failures in a fixed precedence: an existence check
\* that is not a callable of exactly one argument fails with the
\* invalid-argument error before any lookup and without the predicate being
\* invoked; otherwise an unknown genome fails with missing-genome; otherwise
\* an unknown asset fails with missing-asset; and the predicate is evaluated
\* only when the genome and the asset are both registered.
C1_FailurePrecedence ==
    last.op = "get_asset" =>
        LET g == last.genome.s
            a == last.asset.s
        IN  /\ ~OneArg(last.check) =>
                  /\ out.exc = "TypeError"
                  /\ out.msg = <<"Asset existence check must be a one-arg function.">>
                  /\ out.probes = <<>>
            /\ (OneArg(last.check) /\ ~Has(genomes(last.pre), g)) =>
                  /\ out.exc = "MissingGenomeError"
                  /\ Contains(out.msg, g)
            /\ (OneArg(last.check) /\ Has(genomes(last.pre), g)
                  /\ ~Has(Assets(last.pre, g), a)) =>
                  /\ out.exc = "MissingAssetError"
                  /\ Contains(out.msg, g) /\ Contains(out.msg, a)
            /\ out.probes # <<>> => (OneArg(last.check) /\ Registered(last.pre, g, a))

\* a two-argument predicate and an unknown genome: the invalid-argument error wins
C1_Witness ==
    /\ last.op = "get_asset"
    /\ last.check.callable /\ last.check.nargs = 2
    /\ ~Has(genomes(last.pre), last.genome.s)
    /\ out.exc = "TypeError"

\* C2: existence policy of get_asset for a registered asset whose stored path
\* fails the predicate: strict_exists true fails with the I/O existence error
\* whose message contains the stored path, and nothing is returned;
\* strict_exists false emits exactly one warning carrying that message and
\* still returns the stored path; strict_exists None never evaluates the
\* predicate, warns of nothing, raises nothing and returns the stored path.
C2_ExistencePolicy ==
    GetOnStored =>
        LET P == StoredPath(Looked)
        IN  /\ (last.strict = "True" /\ ~Call(last.check, P)) =>
                  /\ out.exc = "IOError"
                  /\ Contains(out.msg, P.s)
                  /\ out.rkind = "none"
            /\ (last.strict = "False" /\ ~Call(last.check, P)) =>
                  /\ out.exc = "none"
                  /\ Len(out.warned) = 1
                  /\ Contains(out.warned[1], P.s)
                  /\ out.rkind = "value" /\ out.ret = P
            /\ last.strict = "None" =>
                  /\ out.probes = <<>>
                  /\ out.warned = <<>>
                  /\ out.exc = "none"
                  /\ out.rkind = "value" /\ out.ret = P

\* C3: for an asset registered through update_genomes with data holding the
\* path field, a successful get_asset returns the raw path string stored for
\* the asset: the value returned and the value handed to the predicate is
\* that string, not the Asset Record, and never a ".tar"/".tar.gz" variant.
C3_ReturnsStoredPathString ==
    (GetOnStored /\ IsMapping(Looked) /\ out.exc = "none") =>
        /\ out.rkind = "value"
        /\ out.ret = StoredPath(Looked)
        /\ out.probes # <<>> => out.probes[1] = StoredPath(Looked)

\* C4: fallback probe of get_asset when strict_exists is not None and the
\* predicate answers false for the stored path P: the predicate is then
\* evaluated on P + ".tar.gz" and on P + ".tar" only if that failed, so at
\* most three times per call; the message mentions exactly the first variant
\* that passes, none when neither passes; strict_exists false still returns P.
C4_FallbackProbe ==
    (GetOnStored /\ last.strict # "None" /\ ~Call(last.check, StoredPath(Looked))) =>
        LET P    == StoredPath(Looked)
            gz   == PyStr(P.s \o <<".tar.gz">>)
            tar  == PyStr(P.s \o <<".tar">>)
            base == <<"Asset may not exist: ">> \o P.s
            msg  == IF last.strict = "True" THEN out.msg
                    ELSE IF Len(out.warned) = 1 THEN out.warned[1] ELSE <<>>
        IN  /\ Len(out.probes) <= 3
            /\ out.probes = IF Call(last.check, gz) THEN <<P, gz>> ELSE <<P, gz, tar>>
            /\ msg = IF Call(last.check, gz) THEN base \o <<"; ">> \o gz.s \o <<" does exist">>
                     ELSE IF Call(last.check, tar)
                     THEN base \o <<"; ">> \o tar.s \o <<" does exist">>
                     ELSE base
            /\ last.strict = "False" => (out.exc = "none" /\ out.ret = P)

----------------------------------------------------------------------------
\* the last call is an update_genomes
Updated == last.op = "update_genomes"

\* the content of the Asset Record of (g, a) before the call: its entries,
\* none if the asset was not there
RecordOf(self, g, a) == IF Registered(self, g, a) THEN GetItem(Assets(self, g), a).m ELSE <<>>

\* the set of keys of an ordered mapping
KeySet(m) == {m[j].k : j \in 1..Len(m)}

\* the registry after update_genomes("hg38", "fasta", {"path": "/x"}) on an
\* empty one
Hg38FastaX ==
    Registry(<<Entry(CFG_GENOMES_KEY,
        [PXAM EXCEPT !.m = <<Entry(HG38, [PXAM EXCEPT !.m =
            <<Entry(FASTA, [PXAM EXCEPT !.m = <<Entry(PATH, PyStr(X))>>])>>])>>])>>)

\* C5: a successful update_genomes(g, a, data) with string g, string a and
\* mapping data registers g and a under g; the Asset Record of (g, a) is its
\* previous content (empty if new) overridden by data's pairs, every key not
\* in data kept; every other genome, every other asset of g and their
\* records are unchanged; the call returns the registry; repeating the call
\* leaves the registry unchanged. From the empty registry
\* update_genomes("hg38", "fasta", {"path": "/x"}) gives genomes_list() =
\* ["hg38"] and list_assets_by_genome("hg38") = ["fasta"], and a following
\* update with {"checksum": "abc"} keeps "path".
C5_UpdateEffect ==
    (Updated /\ out.exc = "none" /\ IsStr(last.genome) /\ IsStr(last.asset)
        /\ IsMapping(last.data)) =>
        LET g    == last.genome.s
            a    == last.asset.s
            data == last.data.m
            prev == RecordOf(last.pre, g, a)
            rec  == RecordOf(reg, g, a)
        IN  /\ Registered(reg, g, a)
            /\ KeySet(rec) = KeySet(prev) \cup KeySet(data)
            /\ \A key \in KeySet(data) : GetItem(rec, key) = GetItem(data, key)
            /\ \A key \in KeySet(prev) \ KeySet(data) : GetItem(rec, key) = GetItem(prev, key)
            /\ KeySet(genomes(reg)) = KeySet(genomes(last.pre)) \cup {g}
            /\ \A g2 \in KeySet(genomes(last.pre)) \ {g} :
                  GetItem(genomes(reg), g2) = GetItem(genomes(last.pre), g2)
            /\ KeySet(Assets(reg, g)) =
                  (IF Has(genomes(last.pre), g) THEN KeySet(Assets(last.pre, g)) ELSE {}) \cup {a}
            /\ Has(genomes(last.pre), g) =>
                  \A a2 \in KeySet(Assets(last.pre, g)) \ {a} :
                      GetItem(Assets(reg, g), a2) = GetItem(Assets(last.pre, g), a2)
            /\ out.rkind = "self" /\ out.reg = reg
            /\ update_genomes(reg, last.genome, last.asset, last.data).reg = reg
            /\ (last.pre = init(<<>>) /\ g = HG38 /\ a = FASTA
                  /\ data = <<Entry(PATH, PyStr(X))>>) =>
                  /\ genomes_list(reg) = <<HG38>>
                  /\ list_assets_by_genome(reg, PyStr(HG38)).rlist = <<FASTA>>
                  /\ GetItem(rec, PATH) = PyStr(X)
            /\ (last.pre = Hg38FastaX /\ g = HG38 /\ a = FASTA
                  /\ data = <<Entry(CHECKSUM, PyStr(<<"abc">>))>>) =>
                  /\ GetItem(rec, PATH) = PyStr(X)
                  /\ GetItem(rec, CHECKSUM) = PyStr(<<"abc">>)

\* the checksum is merged into the record that already holds the path
C5_Witness ==
    /\ Updated /\ out.exc = "none"
    /\ last.pre = Hg38FastaX
    /\ last.genome = PyStr(HG38) /\ last.asset = PyStr(FASTA)
    /\ last.data = PyDict(<<Entry(CHECKSUM, PyStr(<<"abc">>))>>)
    /\ Keys(RecordOf(reg, HG38, FASTA)) = <<PATH, CHECKSUM>>

\* C6: update_genomes is a no-op whenever genome is falsy or absent: for
\* genome None and for the empty string, whatever asset and data are, the
\* call raises nothing, returns the registry and leaves the Genome
\* Collection as it was.
C6_FalsyGenomeNoOp ==
    (Updated /\ Falsy(last.genome) /\ (last.genome = PyNone \/ IsStr(last.genome))) =>
        /\ out.exc = "none"
        /\ out.rkind = "self"
        /\ reg = last.pre

\* C6 as amended: update_genomes is a no-op when genome is None, whatever
\* asset and data are (no error, the registry returned and unchanged); the
\* empty string is a string like any other, and the call ensures a genome of
\* that name.
C6_NoneGenomeNoOp ==
    /\ (Updated /\ last.genome = PyNone) =>
          /\ out.exc = "none"
          /\ out.rkind = "self"
          /\ reg = last.pre
    /\ (Updated /\ last.genome = PyStr(<<>>)) => Has(genomes(reg), <<>>)

\* genome None with an asset and data that are of the wrong types
C6_Witness ==
    /\ Updated
    /\ last.genome = PyNone /\ last.asset = PyInt(42) /\ last.data = PyInt(42)
    /\ out.exc = "none" /\ reg = last.pre /\ ncalls > 0

\* C7: update_genomes raises a type error exactly when genome is given, not
\* None and not a string; or the genome check passed and asset is truthy and
\* not a string; or both checks passed and data is truthy and not a mapping.
\* A falsy non-string asset or falsy non-mapping data counts as not given.
C7_TypeErrorWhenTruthy ==
    Updated =>
        (out.exc = "TypeError" <=>
            \/ (last.genome # PyNone /\ ~IsStr(last.genome))
            \/ (IsStr(last.genome) /\ ~Falsy(last.asset) /\ ~IsStr(last.asset))
            \/ (IsStr(last.genome) /\ IsStr(last.asset)
                  /\ ~Falsy(last.data) /\ ~IsMapping(last.data)))

\* C7 as amended: update_genomes raises a type error exactly when genome is
\* not None and not a string; or genome is a string and asset is not None
\* and not a string; or genome and asset are strings and data is not None
\* and not a mapping. Only None counts as not given: a falsy non-string
\* asset (0) or a falsy non-mapping data (an empty list) raises the error.
C7_TypeErrorUnlessNone ==
    Updated =>
        (out.exc = "TypeError" <=>
            \/ (last.genome # PyNone /\ ~IsStr(last.genome))
            \/ (IsStr(last.genome) /\ last.asset # PyNone /\ ~IsStr(last.asset))
            \/ (IsStr(last.genome) /\ IsStr(last.asset)
                  /\ last.data # PyNone /\ ~IsMapping(last.data)))

\* asset 0 under a string genome raises the type error
C7_Witness ==
    /\ Updated
    /\ IsStr(last.genome) /\ last.asset = PyInt(0)
    /\ out.exc = "TypeError" /\ out.msg[1] = "asset"

\* the genomes of self whose Asset Collection contains a, in registration order
GenomesWith(self, a) ==
    LET Holds(g) == Has(Assets(self, g), a)
    IN  SelectSeq(genomes_list(self), Holds)

\* the asset names registered under at least one genome
AllAssets(self) == UNION {KeySet(Assets(self, g)) : g \in KeySet(genomes(self))}

\* C8: list_genomes_by_asset(a) for any string a, the empty string and
\* unregistered names included, returns the sequence of exactly the genomes
\* whose Asset Collection contains a, in genome-registration order, empty
\* when none has it; list_genomes_by_asset() returns the mapping whose keys
\* are exactly the asset names registered under some genome, each mapped to
\* that sequence.
C8_GenomesByAsset ==
    last.op = "list_genomes_by_asset" =>
        /\ IsStr(last.asset) =>
              /\ out.rkind = "list"
              /\ out.rlist = GenomesWith(last.pre, last.asset.s)
        /\ last.asset = PyNone =>
              /\ out.rkind = "dict"
              /\ KeySet(out.rdict) = AllAssets(last.pre)
              /\ NoDup(Keys(out.rdict))
              /\ \A a \in KeySet(out.rdict) :
                    GetItem(out.rdict, a) = GenomesWith(last.pre, a)

\* C9: after construction and after any sequence of calls, failing ones
\* included: the Genome Collection key exists; genomes_list() and each
\* genome's asset list have no duplicates; nothing is removed or reordered:
\* the genomes_list() before a call is a prefix of the one after it, and so
\* is the asset list of each genome already registered; get_asset and the
\* listing operations never change the registry.
C9_RegistryInvariants ==
    /\ Has(reg.m, CFG_GENOMES_KEY)
    /\ NoDup(Keys(reg.m))
    /\ NoDup(genomes_list(reg))
    /\ \A g \in KeySet(genomes(reg)) : NoDup(Keys(Assets(reg, g)))
    /\ IsPrefix(genomes_list(last.pre), genomes_list(reg))
    /\ \A g \in KeySet(genomes(last.pre)) :
          /\ Has(genomes(reg), g)
          /\ IsPrefix(Keys(Assets(last.pre, g)), Keys(Assets(reg, g)))
    /\ last.op \in {"get_asset", "genomes_list", "list_assets_by_genome",
                    "list_genomes_by_asset"} => reg = last.pre

\* the first of two genomes is updated again with a new asset and stays first
C9_Witness ==
    /\ Updated /\ out.exc = "none"
    /\ Len(genomes_list(last.pre)) = 2
    /\ last.genome = PyStr(genomes_list(last.pre)[1])
    /\ IsStr(last.asset) /\ ~Has(Assets(last.pre, last.genome.s), last.asset.s)
    /\ genomes_list(reg) = genomes_list(last.pre)
    /\ Len(Assets(reg, last.genome.s)) = Len(Assets(last.pre, last.genome.s)) + 1

\* C10: update_genomes is all-or-nothing on failure: whenever the call
\* raises a type error the registry after it is the registry before it; a
\* call failing on asset or data leaves no new genome or empty asset behind.
C10_FailureLeavesRegistry ==
    (Updated /\ out.exc = "TypeError") => reg = last.pre

====
